---- MODULE Spec2Model ----
(***************************************************************************)
(* pauluswi/horten: account balance updates guarded either by a per        *)
(* account sync.Mutex (single/) or by a TTL lock in a key/value store      *)
(* (distributed/): MockRedis with the retrying ProcessTransaction, and     *)
(* the RedisClient interface with the single-attempt ProcessTransaction,   *)
(* which the test runs over MockRedisClient.                               *)
(*                                                                         *)
(* One behaviour of the model is one run of one of the repository's        *)
(* programs; prog says which:                                              *)
(*   "mock"     ProcessTransaction over MockRedis         (3 attempts)     *)
(*   "client"   ProcessTransaction over MockRedisClient   (1 attempt)      *)
(*   "redis"    ProcessTransaction over go-redis          (1 attempt)      *)
(*   "single"   Account.ProcessTransaction under a.mu                      *)
(*   "singletest" the goroutines of TestProcessTransaction under a.mu      *)
(*   "locktest" callers of RedisLock.AcquireLock / ReleaseLock over        *)
(*              MockRedis, as TestRedisLock calls them                     *)
(*   "store"    calls of SetNX and Del on a MockRedis / MockRedisClient    *)
(*   "http"     requests to GetAccountBalanceHandler over AccountService   *)
(* Goroutines interleave at every access to shared memory.  time.Sleep     *)
(* only delays: a TTL goroutine may run at any later moment, and a worker  *)
(* may be arbitrarily slow between two steps.  The main goroutine spawns   *)
(* the workers one by one ( wg.Add(1); go ... ), then waits in wg.Wait().  *)
(***************************************************************************)
EXTENDS Integers, Sequences, FiniteSets, Bags, TLC

VARIABLES
  prog,       \* which program of the repository runs
  batch,      \* the transactions of the batch whose goroutines run
  data,       \* MockRedis.data / MockRedisClient.locks: map key -> value
  owner,      \* history: the caller whose SetNX stored each record of data
  timers,     \* bag of sleeping TTL goroutines, each <<key, value>>, or
              \* <<key, value, "older">> once the key got a later record
              \* with the same value
  now,        \* the reading time.Now().UnixNano() currently gives
  pc,         \* position of each goroutine / caller
  lockValue,  \* RedisLock.value of the lock each worker built
  attempt,    \* loop variable i of the retry loop
  acquired,   \* the bool the worker's last AcquireLock returned
  acqErr,     \* the error the worker's last AcquireLock returned
  relErr,     \* what the worker's last ReleaseLock returned
  balance,    \* Account.Balance of each account
  tmp,        \* the balance read by  account.Balance += amount
  outcome,    \* what ProcessTransaction reported for the transaction
  mu,         \* Account.mu of each account (single/): locked or not
  calls,      \* number of lock calls made so far (locktest)
  lastCall,   \* the lock call made last (locktest): who called what
  wg,         \* the counter of the sync.WaitGroup
  mainpc,     \* position of the goroutine that spawns the workers
  accounts,   \* the accounts table of package service
  request,    \* r.URL.Query().Get("accountNumber") of the last request
  response,   \* what the handler wrote to w for the last request
  delCount    \* the count the last Del called on the store itself
              \* returned, -1 before the first (ReleaseLock discards it)

vars == <<prog, batch, data, owner, timers, now, pc, lockValue, attempt,
          acquired, acqErr, relErr, balance, tmp, outcome, mu, calls, lastCall,
          wg, mainpc, accounts, request, response, delCount>>

----------------------------------------------------------------------------
(* Bounds of the model *)

\* how many transactions of the batch are spawned
NumTx == 2
\* how many distinct readings the clock gives while locks are built
MaxClock == 2
\* how many lock instances call the lock API in locktest
NumLocks == 2
\* how many AcquireLock / ReleaseLock calls locktest makes
MaxCalls == 4

----------------------------------------------------------------------------
(* Program constants *)

\* for i := 0; i < 3; i++
MaxAttempts == 3

Programs ==
  {"mock", "client", "redis", "single", "singletest", "locktest", "store",
   "http"}

Accounts == {"11111", "22222"}

InitialBalance == [a \in Accounts |-> IF a = "11111" THEN 1000 ELSE 2000]

\* the balances TestProcessTransaction of single/ starts from
TestBalance == [a \in Accounts |-> IF a = "11111" THEN 10000 ELSE 20000]

StartBalance == IF prog = "singletest" THEN TestBalance ELSE InitialBalance

\* the batch every main and test runs
Transactions ==
  << [acct |-> "11111", amt |-> -200],
     [acct |-> "11111", amt |-> 300],
     [acct |-> "22222", amt |-> -500],
     [acct |-> "22222", amt |-> -3000],
     [acct |-> "11111", amt |-> 100] >>

\* The goroutines that run: NumTx transactions that follow one another in
\* the batch, starting at any of them.
SubBatches ==
  {[i \in 1..NumTx |-> first + i - 1] :
     first \in 1..(Len(Transactions) - NumTx + 1)}

\* a transaction ProcessTransaction may be given besides those of the batch:
\* a debit the balance of 1000 covers once and not twice
Debit == [acct |-> "11111", amt |-> -600]

\* NumTx goroutines that are each given the debit; it is numbered after the
\* transactions of the batch
DebitBatch == [i \in 1..NumTx |-> Len(Transactions) + 1]

Tx(w) == IF batch[w] > Len(Transactions) THEN Debit ELSE Transactions[batch[w]]

\* fmt.Sprintf("account:%s:lock", account.AccountNumber)
LockKey(acct) == <<"account", acct, "lock">>

TestKey == <<"test-key">>

\* the string ""
EmptyString == <<>>

\* fmt.Sprintf("unique-identifier-%d", n)
UniqueId(n) == <<"unique-identifier", n>>

\* "unique-identifier"
ConstId == <<"unique-identifier">>

\* lock.value of the callers of locktest
TestValue(w) == IF w = 1 THEN <<"test-value">> ELSE <<"test-value", w>>

\* whether the program runs no batch of transactions
NoBatch == prog \in {"locktest", "store", "http"}

Procs ==
  CASE prog = "locktest" -> 1..NumLocks
    [] prog = "store"    -> {}
    [] prog = "http"     -> {}
    [] OTHER             -> 1..NumTx

Distributed == prog \in {"mock", "client", "redis"}

\* the programs whose lock is the account's sync.Mutex
Single == prog \in {"single", "singletest"}

KeyOf(w) == IF prog = "locktest" THEN TestKey ELSE LockKey(Tx(w).acct)

----------------------------------------------------------------------------
(* The lock store: MockRedis and MockRedisClient *)

\* make(map[string]string)
EmptyMap == [k \in {} |-> EmptyString]

Exists(d, key) == key \in DOMAIN d

\* r.data[key] of a Go map: the zero value when the key is absent
Lookup(d, key) == IF key \in DOMAIN d THEN d[key] ELSE EmptyString

\* a write that keeps no other key
PutAlone(d, key, value) == [k \in {key} |-> value]

Put(d, key, value) == [k \in DOMAIN d \cup {key} |-> IF k = key THEN value ELSE d[k]]

Delete(d, key) == [k \in DOMAIN d \ {key} |-> d[k]]

\* a SetNX that does not look for an existing record
SetNXOkAlways(d, key) == TRUE

\* SetNX: whether it returns true
SetNXOk(d, key) == ~Exists(d, key)

\* a SetNX that writes its value over the record it finds
SetNXDataOverwrite(d, key, value) == Put(d, key, value)

\* SetNX: the map it leaves
SetNXData(d, key, value) == IF Exists(d, key) THEN d ELSE Put(d, key, value)

\* SetNX: the error it returns
SetNXErr(d, key) == "nil"

\* a SetNX that starts its TTL goroutine before it looks for a record
SetNXTimersAlways(t, d, key, value) == t (+) SetToBag({<<key, value>>})

\* history: the TTL goroutines of key and value that sleep when a SetNX
\* stores a new record of key with that value were started for earlier
\* records; a third component tells them from the goroutine of the new
\* record, which <<key, value>> alone would not
Older(t, key, value) ==
  LET Mark(x) == IF x = <<key, value>> THEN <<key, value, "older">> ELSE x
  IN BagOfAll(Mark, t)

\* SetNX: the TTL goroutines after it
SetNXTimers(t, d, key, value) ==
  IF Exists(d, key)
    THEN t
    ELSE Older(t, key, value) (+) SetToBag({<<key, value>>})

\* MockRedis.Get
MockRedisGet(d, key) ==
  IF ~Exists(d, key) THEN [val |-> EmptyString, err |-> "key not found"]
  ELSE [val |-> d[key], err |-> "nil"]

\* MockRedisClient.Get
MockRedisClientGet(d, key) ==
  IF ~Exists(d, key) THEN [val |-> EmptyString, err |-> "nil"]
  ELSE [val |-> d[key], err |-> "nil"]

\* rdb.Get(ctx, key).Result() of go-redis: redis.Nil for a missing key
RedisGet(d, key) ==
  IF ~Exists(d, key) THEN [val |-> EmptyString, err |-> "redis: nil"]
  ELSE [val |-> d[key], err |-> "nil"]

StoreGet(d, key) ==
  CASE prog = "client" -> MockRedisClientGet(d, key)
    [] prog = "redis"  -> RedisGet(d, key)
    [] OTHER           -> MockRedisGet(d, key)

\* a Del that reports a removal whatever it finds
DelCountAlwaysOne(d, key) == 1

\* Del: the count it returns
DelCount(d, key) == IF Exists(d, key) THEN 1 ELSE 0

\* a Del that reports the record and leaves it
DelDataKeep(d, key) == d

\* Del: the map it leaves
DelData(d, key) == IF Exists(d, key) THEN Delete(d, key) ELSE d

\* Del: the pending expiries it leaves.  The mocks' TTL goroutines sleep on;
\* a Redis server drops the expiry together with the key.
DelTimers(t, d, key) ==
  IF prog = "redis" /\ Exists(d, key)
    THEN t (-) SetToBag({<<key, d[key]>>})
    ELSE t

\* a TTL goroutine whose test never succeeds
TTLMatchesNever(d, key, value) == FALSE

\* the TTL goroutine's test before it deletes
TTLMatches(d, key, value) == Lookup(d, key) = value

----------------------------------------------------------------------------
(* RedisLock *)

\* ReleaseLock after Get: "lock not found", "err", "nil" (return nil) or "del"
MockReleaseStep(g, value) ==
  IF g.err # "nil" THEN "lock not found"
  ELSE IF g.val = value THEN "del" ELSE "nil"

ClientReleaseStep(g, value) ==
  IF g.err = "redis: nil" THEN "lock not found"
  ELSE IF g.err # "nil" THEN "err"
  ELSE IF g.val = value THEN "del" ELSE "nil"

ReleaseStep(g, value) ==
  IF prog \in {"client", "redis"}
    THEN ClientReleaseStep(g, value)
    ELSE MockReleaseStep(g, value)

\* the value ProcessTransaction gives the lock it builds
NewLockValue(n) == IF prog = "mock" THEN UniqueId(n) ELSE ConstId

\* what time.Now().UnixNano() may give after it gave n: the same reading or
\* a later one.  Readings are only compared for equality, so they are
\* numbered in the order they first appear: the first lock built reads 1,
\* the next reads the last reading or the one after it.  Only the mock
\* variant reads the clock.
ClockReadings(n) ==
  IF prog = "mock" /\ (\E w \in Procs : lockValue[w] # EmptyString)
    THEN {m \in {n, n + 1} : m <= MaxClock}
    ELSE {n}

\* a floor check that forgets to add the amount
InsufficientIgnoresAmount(bal, amt) == amt < 0 /\ bal < 0

\* transaction.Amount < 0 && account.Balance+transaction.Amount < 0
Insufficient(bal, amt) == amt < 0 /\ bal + amt < 0

\* no lock call made yet
NoCall == [who |-> 0, what |-> "none"]

\* where a caller is once ReleaseLock has returned
Returned == IF prog = "locktest" THEN "idle" ELSE "done"

----------------------------------------------------------------------------
(* The balance endpoint: service.AccountService and handler.Handler *)

\* var accounts = map[string]Account{...}
ServiceAccounts ==
  [n \in {"123456", "654321"} |->
     IF n = "123456"
       THEN [AccountNumber |-> "123456", CustomerName |-> "John Doe", Balance |-> 1000]
       ELSE [AccountNumber |-> "654321", CustomerName |-> "Jane Doe", Balance |-> 2000]]

\* Account{}
ZeroAccount == [AccountNumber |-> "", CustomerName |-> "", Balance |-> 0]

\* the accountNumber parameters a request may carry: none, the two accounts
\* of the table, an account the table does not have
Params == {"", "123456", "654321", "999999"}

\* a GetBalance that reports no error for an account it does not find
GetBalanceNoError(table, accountNumber) ==
  IF accountNumber \in DOMAIN table
    THEN [account |-> table[accountNumber], err |-> "nil"]
    ELSE [account |-> ZeroAccount, err |-> "nil"]

\* AccountService.GetBalance: what it returns.  It holds s.mutex from its
\* first statement to its return, so calls run one at a time.
GetBalance(table, accountNumber) ==
  IF accountNumber \in DOMAIN table
    THEN [account |-> table[accountNumber], err |-> "nil"]
    ELSE [account |-> ZeroAccount, err |-> "account not found"]

\* json.Marshal(account): the members in the order of the struct's fields,
\* named by their json tags
Marshal(account) ==
  << <<"accountNumber", account.AccountNumber>>,
     <<"customerName", account.CustomerName>>,
     <<"balance", account.Balance>> >>

\* http.Error(w, msg, code)
HttpError(msg, code) ==
  [status |-> code, contentType |-> "text/plain; charset=utf-8",
   body |-> <<msg, "\n">>]

\* nothing written yet
NoResponse == [status |-> 0, contentType |-> "", body |-> <<>>]

\* what GetAccountBalanceHandler writes for the parameter accountNumber
HandlerResponse(table, accountNumber) ==
  IF accountNumber = ""
    THEN HttpError("accountNumber is required", 400)
    ELSE LET got == GetBalance(table, accountNumber)
         IN IF got.err # "nil"
              THEN HttpError(got.err, 404)
              ELSE [status |-> 200, contentType |-> "application/json",
                    body |-> Marshal(got.account)]

----------------------------------------------------------------------------
\* the state before the first goroutine is spawned, the batch being one of
\* Batches
InitOf(Batches) ==
  /\ prog \in Programs
  /\ batch \in IF NoBatch THEN {<<>>} ELSE Batches
  /\ data = EmptyMap
  /\ owner = EmptyMap
  /\ timers = EmptyBag
  /\ now = 1
  /\ pc = [w \in Procs |-> IF prog = "locktest" THEN "idle" ELSE "unborn"]
  /\ lockValue = [w \in Procs |-> IF prog = "locktest" THEN TestValue(w) ELSE EmptyString]
  /\ attempt = [w \in Procs |-> 0]
  /\ acquired = [w \in Procs |-> FALSE]
  /\ acqErr = [w \in Procs |-> "none"]
  /\ relErr = [w \in Procs |-> "none"]
  /\ balance = StartBalance
  /\ tmp = [w \in Procs |-> 0]
  /\ outcome = [w \in Procs |-> "none"]
  /\ mu = [a \in Accounts |-> FALSE]
  /\ calls = 0
  /\ lastCall = NoCall
  /\ wg = 0
  /\ mainpc = IF NoBatch THEN "none" ELSE "spawn"
  /\ accounts = ServiceAccounts
  /\ request = ""
  /\ response = NoResponse
  /\ delCount = -1

Init == InitOf(SubBatches)

----------------------------------------------------------------------------
(* The goroutine that runs the batch: main, or the test function *)

\* the transactions the loop has not reached yet
Unborn == {w \in Procs : pc[w] = "unborn"}

\* where a worker starts
FirstPc == IF Single THEN "lock" ELSE "new"

\* one turn of the loop:  wg.Add(1); go ProcessTransaction(...) ; after the
\* last turn main is in wg.Wait()
Spawn ==
  /\ mainpc = "spawn"
  /\ LET w == CHOOSE u \in Unborn : \A v \in Unborn : u <= v
     IN /\ pc' = [pc EXCEPT ![w] = FirstPc]
        /\ mainpc' = IF Unborn = {w} THEN "wait" ELSE "spawn"
  /\ wg' = wg + 1
  /\ UNCHANGED <<prog, batch, data, owner, timers, now, lockValue, attempt,
                 acquired, acqErr, relErr, balance, tmp, outcome, mu, calls,
                 lastCall,
                 accounts, request, response, delCount>>

\* wg.Wait() returns once the counter is zero; main goes on to read the
\* balances
WaitReturn ==
  /\ mainpc = "wait"
  /\ wg = 0
  /\ mainpc' = "read"
  /\ UNCHANGED <<prog, batch, data, owner, timers, now, pc, lockValue, attempt,
                 acquired, acqErr, relErr, balance, tmp, outcome, mu, calls,
                 lastCall, wg,
                 accounts, request, response, delCount>>

\* whether the goroutine is a func literal that defers wg.Done() itself
\* and then calls ProcessTransaction
Wrapped == prog = "client"

\* a deferred wg.Done(): that of ProcessTransaction, then that of the func
\* literal around it.  Done on a counter of zero panics ("sync: negative
\* WaitGroup counter") and the process is gone: its goroutines and, with
\* them, the store it kept in memory.
WgDone(w) ==
  /\ pc[w] \in {"done", "wrapper"}
  /\ wg' = wg - 1
  /\ IF wg = 0
       THEN /\ pc' = [v \in Procs |-> "dead"]
            /\ mainpc' = "panic"
            /\ data' = EmptyMap
            /\ owner' = EmptyMap
            /\ timers' = EmptyBag
       ELSE /\ pc' = [pc EXCEPT ![w] =
                        IF pc[w] = "done" /\ Wrapped THEN "wrapper" ELSE "exited"]
            /\ UNCHANGED <<mainpc, data, owner, timers>>
  /\ UNCHANGED <<prog, batch, now, lockValue, attempt, acquired, acqErr,
                 relErr, balance, tmp, outcome, mu, calls, lastCall,
                 accounts, request, response, delCount>>

----------------------------------------------------------------------------
(* The TTL goroutines *)

\* the history of who stored each record, after a step that leaves map d
OwnerIn(d) == [k \in DOMAIN owner \cap DOMAIN d |-> owner[k]]

\* the goroutine SetNX started wakes up after time.Sleep(ttl)
TTLExpire ==
  \E t \in BagToSet(timers) :
    /\ data' = IF TTLMatches(data, t[1], t[2]) THEN Delete(data, t[1]) ELSE data
    /\ owner' = OwnerIn(data')
    /\ timers' = timers (-) SetToBag({t})
    /\ UNCHANGED <<prog, batch, now, pc, lockValue, attempt, acquired, acqErr,
                   relErr, balance, tmp, outcome, mu, calls, lastCall,
                 wg, mainpc,
                   accounts, request, response, delCount>>

----------------------------------------------------------------------------
(* RedisLock.AcquireLock: one SetNX *)

\* what AcquireLock by w does to the store
SetNXBy(w) ==
  /\ data' = SetNXData(data, KeyOf(w), lockValue[w])
  /\ timers' = SetNXTimers(timers, data, KeyOf(w), lockValue[w])
  /\ owner' = IF SetNXOk(data, KeyOf(w)) THEN Put(owner, KeyOf(w), w) ELSE owner
  /\ acquired' = [acquired EXCEPT ![w] =
                    SetNXErr(data, KeyOf(w)) = "nil" /\ SetNXOk(data, KeyOf(w))]
  /\ acqErr' = [acqErr EXCEPT ![w] = SetNXErr(data, KeyOf(w))]

----------------------------------------------------------------------------
(* ProcessTransaction, distributed *)

\* lock := RedisLock{client, key, value}
NewLock(w) ==
  /\ Distributed
  /\ pc[w] = "new"
  /\ \E n \in ClockReadings(now) :
       /\ now' = n
       /\ lockValue' = [lockValue EXCEPT ![w] = NewLockValue(n)]
  /\ pc' = [pc EXCEPT ![w] = "acquire"]
  /\ UNCHANGED <<prog, batch, data, owner, timers, attempt, acquired, acqErr,
                 relErr, balance, tmp, outcome, mu, calls, lastCall,
                 wg, mainpc,
                 accounts, request, response, delCount>>

\* a retry loop that makes one attempt more
LastAttemptFourth(i) == IF prog = "mock" THEN i = MaxAttempts ELSE TRUE

\* a retry loop that gives up after its first attempt
LastAttemptFirst(i) == TRUE

\* whether the attempt numbered i is the last one ProcessTransaction makes
LastAttempt(i) == IF prog = "mock" THEN i = MaxAttempts - 1 ELSE TRUE

\* one AcquireLock of ProcessTransaction and what the worker does with the
\* result, up to its next AcquireLock or the critical section
Acquire(w) ==
  /\ Distributed
  /\ pc[w] = "acquire"
  /\ SetNXBy(w)
  /\ IF acqErr'[w] # "nil"
       THEN /\ pc' = [pc EXCEPT ![w] = "done"]
            /\ outcome' = [outcome EXCEPT ![w] = "error"]
            /\ attempt' = [attempt EXCEPT ![w] = 0]
       ELSE IF acquired'[w]
         THEN /\ pc' = [pc EXCEPT ![w] = "check"]
              /\ attempt' = [attempt EXCEPT ![w] = 0]
              /\ UNCHANGED outcome
         ELSE IF LastAttempt(attempt[w])
           THEN /\ pc' = [pc EXCEPT ![w] = "done"]
                /\ outcome' = [outcome EXCEPT ![w] = "skipped"]
                /\ attempt' = [attempt EXCEPT ![w] = 0]
           ELSE /\ attempt' = [attempt EXCEPT ![w] = @ + 1]
                /\ UNCHANGED <<pc, outcome>>
  /\ UNCHANGED <<prog, batch, now, lockValue, relErr, balance, tmp, mu, calls,
                 lastCall,
                 wg, mainpc,
                 accounts, request, response, delCount>>

----------------------------------------------------------------------------
(* The critical section, shared by every ProcessTransaction *)

\* a distributed worker that returns without its deferred ReleaseLock
AfterCSNoRelease == IF Single THEN "unlock" ELSE "done"

\* what runs when the critical section is left: the deferred call
AfterCS == IF Single THEN "unlock" ELSE "release"

\* if amount < 0 && balance+amount < 0 { print; return }
Check(w) ==
  /\ pc[w] = "check"
  /\ IF Insufficient(balance[Tx(w).acct], Tx(w).amt)
       THEN /\ outcome' = [outcome EXCEPT ![w] = "rejected"]
            /\ pc' = [pc EXCEPT ![w] = AfterCS]
       ELSE /\ pc' = [pc EXCEPT ![w] = "load"]
            /\ UNCHANGED outcome
  /\ UNCHANGED <<prog, batch, data, owner, timers, now, lockValue, attempt,
                 acquired, acqErr, relErr, balance, tmp, mu, calls, lastCall,
                 wg, mainpc,
                 accounts, request, response, delCount>>

\* account.Balance += amount: the read
Load(w) ==
  /\ pc[w] = "load"
  /\ tmp' = [tmp EXCEPT ![w] = balance[Tx(w).acct]]
  /\ pc' = [pc EXCEPT ![w] = "store"]
  /\ UNCHANGED <<prog, batch, data, owner, timers, now, lockValue, attempt,
                 acquired, acqErr, relErr, balance, outcome, mu, calls, lastCall,
                 wg, mainpc,
                 accounts, request, response, delCount>>

\* a write that stores the balance read, without the amount
StoreWithoutAmount(w) ==
  /\ pc[w] = "store"
  /\ balance' = [balance EXCEPT ![Tx(w).acct] = tmp[w]]
  /\ outcome' = [outcome EXCEPT ![w] = "applied"]
  /\ tmp' = [tmp EXCEPT ![w] = 0]
  /\ pc' = [pc EXCEPT ![w] = AfterCS]
  /\ UNCHANGED <<prog, batch, data, owner, timers, now, lockValue, attempt,
                 acquired, acqErr, relErr, mu, calls, lastCall,
                 wg, mainpc,
                 accounts, request, response, delCount>>

\* a write that adds the amount twice
StoreTwice(w) ==
  /\ pc[w] = "store"
  /\ balance' = [balance EXCEPT ![Tx(w).acct] = tmp[w] + Tx(w).amt + Tx(w).amt]
  /\ outcome' = [outcome EXCEPT ![w] = "applied"]
  /\ tmp' = [tmp EXCEPT ![w] = 0]
  /\ pc' = [pc EXCEPT ![w] = AfterCS]
  /\ UNCHANGED <<prog, batch, data, owner, timers, now, lockValue, attempt,
                 acquired, acqErr, relErr, mu, calls, lastCall,
                 wg, mainpc,
                 accounts, request, response, delCount>>

\* account.Balance += amount: the write
Store(w) ==
  /\ pc[w] = "store"
  /\ balance' = [balance EXCEPT ![Tx(w).acct] = tmp[w] + Tx(w).amt]
  /\ outcome' = [outcome EXCEPT ![w] = "applied"]
  /\ tmp' = [tmp EXCEPT ![w] = 0]
  /\ pc' = [pc EXCEPT ![w] = AfterCS]
  /\ UNCHANGED <<prog, batch, data, owner, timers, now, lockValue, attempt,
                 acquired, acqErr, relErr, mu, calls, lastCall,
                 wg, mainpc,
                 accounts, request, response, delCount>>

----------------------------------------------------------------------------
(* RedisLock.ReleaseLock: Get, then Del *)

\* val, err := lock.client.Get(lock.key) and the tests on val and err
ReleaseGet(w) ==
  /\ \/ Distributed /\ pc[w] = "release"
     \/ prog = "locktest" /\ pc[w] = "idle" /\ calls < MaxCalls
  /\ LET step == ReleaseStep(StoreGet(data, KeyOf(w)), lockValue[w])
     IN IF step = "del"
          THEN /\ pc' = [pc EXCEPT ![w] = "del"]
               /\ UNCHANGED relErr
          ELSE /\ pc' = [pc EXCEPT ![w] = Returned]
               /\ relErr' = [relErr EXCEPT ![w] = step]
  /\ IF prog = "locktest"
       THEN /\ calls' = calls + 1
            /\ lastCall' = [who |-> w, what |-> "ReleaseLock"]
       ELSE UNCHANGED <<calls, lastCall>>
  /\ UNCHANGED <<prog, batch, data, owner, timers, now, lockValue, attempt,
                 acquired, acqErr, balance, tmp, outcome, mu,
                 wg, mainpc,
                 accounts, request, response, delCount>>

\* _, err = lock.client.Del(lock.key); return nil
ReleaseDel(w) ==
  /\ pc[w] = "del"
  /\ data' = DelData(data, KeyOf(w))
  /\ owner' = OwnerIn(data')
  /\ timers' = DelTimers(timers, data, KeyOf(w))
  /\ relErr' = [relErr EXCEPT ![w] = "nil"]
  /\ pc' = [pc EXCEPT ![w] = Returned]
  /\ UNCHANGED <<prog, batch, now, lockValue, attempt, acquired,
                 acqErr, balance, tmp, outcome, mu, calls, lastCall,
                 wg, mainpc,
                 accounts, request, response, delCount>>

----------------------------------------------------------------------------
(* Account.ProcessTransaction of single/ *)

\* a Lock that does not wait for the mutex to be free
MuLockNoWait(w) ==
  /\ Single
  /\ pc[w] = "lock"
  /\ mu' = [mu EXCEPT ![Tx(w).acct] = TRUE]
  /\ pc' = [pc EXCEPT ![w] = "check"]
  /\ UNCHANGED <<prog, batch, data, owner, timers, now, lockValue, attempt,
                 acquired, acqErr, relErr, balance, tmp, outcome, calls,
                 lastCall, wg, mainpc,
                 accounts, request, response, delCount>>

\* a.mu.Lock()
MuLock(w) ==
  /\ Single
  /\ pc[w] = "lock"
  /\ ~mu[Tx(w).acct]
  /\ mu' = [mu EXCEPT ![Tx(w).acct] = TRUE]
  /\ pc' = [pc EXCEPT ![w] = "check"]
  /\ UNCHANGED <<prog, batch, data, owner, timers, now, lockValue, attempt,
                 acquired, acqErr, relErr, balance, tmp, outcome, calls,
                 lastCall,
                 wg, mainpc,
                 accounts, request, response, delCount>>

\* defer a.mu.Unlock()
MuUnlock(w) ==
  /\ pc[w] = "unlock"
  /\ mu' = [mu EXCEPT ![Tx(w).acct] = FALSE]
  /\ pc' = [pc EXCEPT ![w] = "done"]
  /\ UNCHANGED <<prog, batch, data, owner, timers, now, lockValue, attempt,
                 acquired, acqErr, relErr, balance, tmp, outcome, calls,
                 lastCall,
                 wg, mainpc,
                 accounts, request, response, delCount>>

----------------------------------------------------------------------------
(* Callers of the lock API, as in TestRedisLock *)

\* success, err = lock.AcquireLock(ttl)
CallAcquire(w) ==
  /\ prog = "locktest"
  /\ pc[w] = "idle"
  /\ calls < MaxCalls
  /\ SetNXBy(w)
  /\ calls' = calls + 1
  /\ lastCall' = [who |-> w, what |-> "AcquireLock"]
  /\ UNCHANGED <<prog, batch, now, pc, lockValue, attempt, relErr, balance,
                 tmp, outcome, mu,
                 wg, mainpc,
                 accounts, request, response, delCount>>

----------------------------------------------------------------------------
(* Callers of the store itself: SetNX and Del on a MockRedis *)

\* the keys the callers of the store use
StoreKeys == {TestKey, LockKey("11111")}

\* ok, err := r.SetNX(key, "test-value", ttl)
CallSetNX(k) ==
  /\ prog = "store"
  /\ calls < MaxCalls
  /\ data' = SetNXData(data, k, TestValue(1))
  /\ timers' = SetNXTimers(timers, data, k, TestValue(1))
  /\ calls' = calls + 1
  /\ lastCall' = [who |-> 0, what |-> "SetNX", key |-> k]
  /\ UNCHANGED <<prog, batch, owner, now, pc, lockValue, attempt, acquired,
                 acqErr, relErr, balance, tmp, outcome, mu, wg, mainpc,
                 accounts, request, response, delCount>>

\* n, err := r.Del(key)
CallDel(k) ==
  /\ prog = "store"
  /\ calls < MaxCalls
  /\ data' = DelData(data, k)
  /\ delCount' = DelCount(data, k)
  /\ calls' = calls + 1
  /\ lastCall' = [who |-> 0, what |-> "Del", key |-> k]
  /\ UNCHANGED <<prog, batch, owner, timers, now, pc, lockValue, attempt,
                 acquired, acqErr, relErr, balance, tmp, outcome, mu, wg,
                 mainpc, accounts, request, response>>

----------------------------------------------------------------------------
(* handler.GetAccountBalanceHandler *)

\* one request with ?accountNumber=q is served
GetAccountBalanceHandler(q) ==
  /\ prog = "http"
  /\ request' = q
  /\ response' = HandlerResponse(accounts, q)
  /\ UNCHANGED <<prog, batch, data, owner, timers, now, pc, lockValue, attempt,
                 acquired, acqErr, relErr, balance, tmp, outcome, mu, calls,
                 lastCall, wg, mainpc, accounts, delCount>>

----------------------------------------------------------------------------
Next ==
  \/ Spawn
  \/ WaitReturn
  \/ \E w \in Procs : WgDone(w)
  \/ TTLExpire
  \/ \E w \in Procs : NewLock(w)
  \/ \E w \in Procs : Acquire(w)
  \/ \E w \in Procs : Check(w)
  \/ \E w \in Procs : Load(w)
  \/ \E w \in Procs : Store(w)
  \/ \E w \in Procs : ReleaseGet(w)
  \/ \E w \in Procs : ReleaseDel(w)
  \/ \E w \in Procs : MuLock(w)
  \/ \E w \in Procs : MuUnlock(w)
  \/ \E w \in Procs : CallAcquire(w)
  \/ \E k \in StoreKeys : CallSetNX(k)
  \/ \E k \in StoreKeys : CallDel(k)
  \/ \E q \in Params : GetAccountBalanceHandler(q)

Spec == Init /\ [][Next]_vars

\* A TTL goroutine that has slept its ttl is runnable and the Go scheduler
\* runs it; nothing obliges a worker to go on (it may stall or crash).
LiveSpec == Spec /\ WF_vars(TTLExpire)

\* the programs run on the batch of the repository or on the debits
DebitInit == InitOf(SubBatches \cup {DebitBatch})

DebitSpec == DebitInit /\ [][Next]_vars

\* a step of the goroutine of transaction w
WorkerStep(w) ==
  /\ w \in Procs
  /\ prog # "locktest"
  /\ \/ NewLock(w) \/ Acquire(w) \/ Check(w) \/ Load(w) \/ Store(w)
     \/ ReleaseGet(w) \/ ReleaseDel(w) \/ MuLock(w) \/ MuUnlock(w) \/ WgDone(w)

----------------------------------------------------------------------------
(* A lock store that fails: the Redis server cannot be reached *)

\* only go-redis returns errors other than redis.Nil; the mocks never fail
StoreMayFail == prog = "redis"

\* a ProcessTransaction that goes on after AcquireLock returned an error
AcquireFailsGoesOn(w) ==
  /\ StoreMayFail
  /\ pc[w] = "acquire"
  /\ acquired' = [acquired EXCEPT ![w] = FALSE]
  /\ acqErr' = [acqErr EXCEPT ![w] = "err"]
  /\ outcome' = [outcome EXCEPT ![w] = "error"]
  /\ pc' = [pc EXCEPT ![w] = "check"]
  /\ UNCHANGED <<prog, batch, data, owner, timers, now, lockValue, attempt,
                 relErr, balance, tmp, mu, calls, lastCall, wg, mainpc,
                 accounts, request, response, delCount>>

\* a ProcessTransaction that has deferred ReleaseLock before it calls
\* AcquireLock, and so releases after an error
AcquireFailsThenReleases(w) ==
  /\ StoreMayFail
  /\ pc[w] = "acquire"
  /\ acquired' = [acquired EXCEPT ![w] = FALSE]
  /\ acqErr' = [acqErr EXCEPT ![w] = "err"]
  /\ outcome' = [outcome EXCEPT ![w] = "error"]
  /\ pc' = [pc EXCEPT ![w] = "release"]
  /\ UNCHANGED <<prog, batch, data, owner, timers, now, lockValue, attempt,
                 relErr, balance, tmp, mu, calls, lastCall, wg, mainpc,
                 accounts, request, response, delCount>>

\* AcquireLock returns (false, err): ProcessTransaction prints and returns
AcquireFails(w) ==
  /\ StoreMayFail
  /\ pc[w] = "acquire"
  /\ acquired' = [acquired EXCEPT ![w] = FALSE]
  /\ acqErr' = [acqErr EXCEPT ![w] = "err"]
  /\ outcome' = [outcome EXCEPT ![w] = "error"]
  /\ pc' = [pc EXCEPT ![w] = "done"]
  /\ UNCHANGED <<prog, batch, data, owner, timers, now, lockValue, attempt,
                 relErr, balance, tmp, mu, calls, lastCall, wg, mainpc,
                 accounts, request, response, delCount>>

\* the Get of ReleaseLock fails: ReleaseLock returns err
ReleaseGetFails(w) ==
  /\ StoreMayFail
  /\ pc[w] = "release"
  /\ relErr' = [relErr EXCEPT ![w] = "err"]
  /\ pc' = [pc EXCEPT ![w] = "done"]
  /\ UNCHANGED <<prog, batch, data, owner, timers, now, lockValue, attempt,
                 acquired, acqErr, balance, tmp, outcome, mu, calls, lastCall,
                 wg, mainpc,
                 accounts, request, response, delCount>>

\* the Del of ReleaseLock fails: ReleaseLock returns err, the record stays
ReleaseDelFails(w) ==
  /\ StoreMayFail
  /\ pc[w] = "del"
  /\ relErr' = [relErr EXCEPT ![w] = "err"]
  /\ pc' = [pc EXCEPT ![w] = "done"]
  /\ UNCHANGED <<prog, batch, data, owner, timers, now, lockValue, attempt,
                 acquired, acqErr, balance, tmp, outcome, mu, calls, lastCall,
                 wg, mainpc,
                 accounts, request, response, delCount>>

FaultNext ==
  \/ Next
  \/ \E w \in Procs : AcquireFails(w)
  \/ \E w \in Procs : ReleaseGetFails(w)
  \/ \E w \in Procs : ReleaseDelFails(w)

FaultSpec == Init /\ [][FaultNext]_vars

----------------------------------------------------------------------------
(* Steps of one caller, as the properties below name them *)

\* w's AcquireLock (its SetNX) happens in this step
AcquireStep(w) ==
  \/ Distributed /\ pc[w] = "acquire"
       /\ (pc'[w] # "acquire" \/ attempt'[w] # attempt[w])
       /\ pc'[w] # "dead"
  \/ prog = "locktest" /\ calls' = calls + 1
       /\ lastCall' = [who |-> w, what |-> "AcquireLock"]

\* the Get of w's ReleaseLock happens in this step
ReleaseGetStep(w) ==
  \/ Distributed /\ pc[w] = "release" /\ pc'[w] \notin {"release", "dead"}
  \/ prog = "locktest" /\ calls' = calls + 1
       /\ lastCall' = [who |-> w, what |-> "ReleaseLock"]

\* the Del of w's ReleaseLock happens in this step
ReleaseDelStep(w) == pc[w] = "del" /\ pc'[w] \notin {"del", "dead"}

CheckStep(w) == pc[w] = "check" /\ pc'[w] \notin {"check", "dead"}

LoadStep(w) == pc[w] = "load" /\ pc'[w] \notin {"load", "dead"}

StoreStep(w) == pc[w] = "store" /\ pc'[w] \notin {"store", "dead"}

\* Del is called on key k of the store in this step
DelStep(k) ==
  /\ prog = "store"
  /\ calls' = calls + 1
  /\ lastCall' = [who |-> 0, what |-> "Del", key |-> k]

\* the TTL goroutine t wakes up in this step
ExpiryStep(t) ==
  /\ t \in BagToSet(timers)
  /\ timers' = timers (-) SetToBag({t})
  /\ pc' = pc
  /\ calls' = calls

\* w is between its successful AcquireLock and the end of its ReleaseLock
InCS(w) == pc[w] \in {"check", "load", "store", "release", "del"}

AllKeys == {TestKey} \cup {LockKey(a) : a \in Accounts}

\* w is between a.mu.Lock() and a.mu.Unlock()
InMu(w) == pc[w] \in {"check", "load", "store", "unlock"}

\* how far a distributed worker has got, from its position and the number of
\* attempts it has made
Rank(p, i) ==
  CASE p = "unborn"  -> 0
    [] p = "new"     -> 1
    [] p = "acquire" -> 2 + i
    [] p = "check"   -> 2 + MaxAttempts
    [] p = "load"    -> 3 + MaxAttempts
    [] p = "store"   -> 4 + MaxAttempts
    [] p = "release" -> 5 + MaxAttempts
    [] p = "del"     -> 6 + MaxAttempts
    [] p = "done"    -> 7 + MaxAttempts
    [] p = "wrapper" -> 8 + MaxAttempts
    [] OTHER         -> 9 + MaxAttempts

\* every ProcessTransaction of the batch has returned
Finished == \A w \in Procs : pc[w] \in {"done", "wrapper", "exited"}

\* the sum of the amounts of the transactions of the workers in S
RECURSIVE SumAmt(_)
SumAmt(S) ==
  IF S = {} THEN 0
  ELSE LET w == CHOOSE x \in S : TRUE
       IN Tx(w).amt + SumAmt(S \ {w})

\* the workers whose transaction on account a was applied
Applied(a) == {w \in Procs : Tx(w).acct = a /\ outcome[w] = "applied"}

\* what the batch's expected balances say of w's transaction: all are
\* applied but the debit of 3000 on 22222, which only the balance of 20000
\* of TestProcessTransaction covers
Expected(w) ==
  IF Tx(w) = [acct |-> "22222", amt |-> -3000] /\ prog # "singletest"
    THEN "rejected"
    ELSE "applied"

\* the balance of a once every transaction expected to be applied was
ExpectedBalance(a) ==
  StartBalance[a] + SumAmt({w \in Procs : Tx(w).acct = a /\ Expected(w) = "applied"})

----------------------------------------------------------------------------
(* C1: a SetNX returns true exactly when the key has no record, then the  *)
(* key holds the caller's value; a SetNX that returns false changes       *)
(* nothing.  So two SetNX on a key both return true only if the record    *)
(* was removed between them, and of N callers on a free key the first     *)
(* one served wins and no other does while the record stays.              *)
C1_SetNXMutualExclusion ==
  [][\A w \in Procs : AcquireStep(w) =>
       /\ acquired'[w] <=> KeyOf(w) \notin DOMAIN data
       /\ acquired'[w] =>
            /\ KeyOf(w) \in DOMAIN data'
            /\ data'[KeyOf(w)] = lockValue[w]
       /\ ~acquired'[w] => data' = data]_vars

\* two callers on one key: the first holds it, the second was refused
C1_Witness ==
  \E w1, w2 \in Procs :
    /\ w1 # w2 /\ KeyOf(w1) = KeyOf(w2)
    /\ acquired[w1] /\ KeyOf(w1) \in DOMAIN data /\ owner[KeyOf(w1)] = w1
    /\ ~acquired[w2] /\ acqErr[w2] = "nil"

(* C2: no two distributed workers of one account are at the same time     *)
(* between their successful AcquireLock and the end of their ReleaseLock. *)
C2_NoTwoInCriticalSection ==
  \A w1, w2 \in Procs :
    (Distributed /\ w1 # w2 /\ Tx(w1).acct = Tx(w2).acct)
      => ~(InCS(w1) /\ InCS(w2))

(* C3: when a worker that had acquired the key starts ReleaseLock while   *)
(* the key's record is one another worker stored since, its ReleaseLock   *)
(* returns nil at once, without going on to Del.  Stated of the locks     *)
(* the single-attempt ProcessTransaction builds.                          *)
C3_StaleReleaseSparesNewHolder ==
  [][\A a \in Procs :
       (/\ prog = "client"
        /\ ReleaseGetStep(a)
        /\ acquired[a]
        /\ KeyOf(a) \in DOMAIN data
        /\ owner[KeyOf(a)] # a)
       => (pc'[a] = "done" /\ relErr'[a] = "nil" /\ data' = data)]_vars

(* C4: the Del of a ReleaseLock leaves alone a record whose token, at the *)
(* moment of the Del, is not the releasing lock's token.                  *)
C4_DelOnlyOwnToken ==
  [][\A a \in Procs :
       (/\ ReleaseDelStep(a)
        /\ KeyOf(a) \in DOMAIN data
        /\ data[KeyOf(a)] # lockValue[a])
       => data' = data]_vars

(* C5: the locks two workers built for one key carry different tokens.    *)
(* Stated of the locks the single-attempt ProcessTransaction builds.      *)
C5_TokensDistinct ==
  \A w1, w2 \in Procs :
    (/\ prog = "client"
     /\ w1 # w2
     /\ pc[w1] \notin {"unborn", "new"} /\ pc[w2] \notin {"unborn", "new"}
     /\ KeyOf(w1) = KeyOf(w2))
    => lockValue[w1] # lockValue[w2]

(* C6: a ReleaseLock that finds no record for its key returns "lock not   *)
(* found" and leaves the store as it was, over every store.               *)
C6_ReleaseWithoutRecordFails ==
  [][\A w \in Procs :
       (ReleaseGetStep(w) /\ KeyOf(w) \notin DOMAIN data)
       => (/\ relErr'[w] = "lock not found"
           /\ pc'[w] = Returned
           /\ data' = data)]_vars

(* C7: an AcquireLock on a key that has a record returns (false, nil),    *)
(* whoever calls and whatever its token; the record, and the bag of TTL   *)
(* goroutines, are as before: no new expiry, none extended.               *)
C7_AcquireHeldKeyFails ==
  [][\A w \in Procs :
       (AcquireStep(w) /\ KeyOf(w) \in DOMAIN data)
       => (/\ ~acquired'[w]
           /\ acqErr'[w] = "nil"
           /\ data' = data
           /\ timers' = timers
           /\ outcome'[w] # "error")]_vars

\* the instance that holds the key asked for it again and was refused
C7_Witness ==
  /\ prog = "locktest"
  /\ lastCall = [who |-> 1, what |-> "AcquireLock"]
  /\ ~acquired[1]
  /\ TestKey \in DOMAIN data
  /\ owner[TestKey] = 1
  /\ data[TestKey] = lockValue[1]

(* C8: the lifecycle of a key.  AcquireLock on a free key returns true    *)
(* and the key holds the caller's token; ReleaseLock by a caller whose    *)
(* token the record carries goes on to Del, returns nil and leaves the    *)
(* key free, so that the next AcquireLock succeeds again; this at every   *)
(* cycle.                                                                 *)
C8_LockLifecycle ==
  [][\A w \in Procs :
       /\ (AcquireStep(w) /\ KeyOf(w) \notin DOMAIN data)
            => (/\ acquired'[w]
                /\ KeyOf(w) \in DOMAIN data'
                /\ data'[KeyOf(w)] = lockValue[w])
       /\ (/\ ReleaseGetStep(w)
           /\ KeyOf(w) \in DOMAIN data
           /\ data[KeyOf(w)] = lockValue[w])
            => (pc'[w] = "del" /\ data' = data)
       /\ ReleaseDelStep(w)
            => (/\ relErr'[w] = "nil"
                /\ pc'[w] = Returned
                /\ KeyOf(w) \notin DOMAIN data')]_vars

\* second cycle: the caller acquired, released and acquired again, and no
\* TTL goroutine has run (both are still asleep)
C8_Witness ==
  /\ prog = "locktest"
  /\ CopiesIn(<<TestKey, lockValue[1]>>, timers) = 1
  /\ CopiesIn(<<TestKey, lockValue[1], "older">>, timers) = 1
  /\ relErr[1] = "nil"
  /\ acquired[1]
  /\ TestKey \in DOMAIN data
  /\ owner[TestKey] = 1

(* C9: a key that is held is eventually free, whether or not its holder   *)
(* ever releases it: the TTL goroutine removes the record, after which    *)
(* MockRedis.Get reports the key as not found and a SetNX on it succeeds. *)
(* Workers are under no fairness, so a holder may stall for ever.         *)
C9_HeldKeyEventuallyFree ==
  \A k \in AllKeys :
    (k \in DOMAIN data)
      ~> (/\ k \notin DOMAIN data
          /\ MockRedisGet(data, k).err = "key not found"
          /\ SetNXOk(data, k))

\* the holder has not moved since it acquired; its record is gone and
\* another worker's AcquireLock has succeeded since
C9_Witness ==
  \E w, w2 \in Procs :
    /\ Distributed
    /\ w # w2
    /\ pc[w] = "check" /\ acquired[w]
    /\ KeyOf(w) \in DOMAIN data
    /\ owner[KeyOf(w)] = w2

(* C10: the floor check.  A debit with balance + amount < 0 is rejected:  *)
(* the step leaves every balance as it was, the worker goes on to release *)
(* the lock (or unlock the mutex) and never writes the balance; any other *)
(* transaction goes on to  balance += amount,  which reads the balance    *)
(* and writes that value plus the amount; under the mutex that is the     *)
(* balance of the moment plus the amount.                                 *)
C10_FloorCheck ==
  [][\A w \in Procs : prog # "locktest" =>
       LET a == Tx(w).acct
           m == Tx(w).amt
           low == m < 0 /\ balance[a] + m < 0
       IN /\ (CheckStep(w) /\ low)
               => (/\ balance' = balance
                   /\ outcome'[w] = "rejected"
                   /\ pc'[w] = IF Single THEN "unlock" ELSE "release")
          /\ (CheckStep(w) /\ ~low)
               => (pc'[w] = "load" /\ balance' = balance)
          /\ LoadStep(w) => (tmp'[w] = balance[a] /\ pc'[w] = "store")
          /\ StoreStep(w)
               => (/\ balance' = [balance EXCEPT ![a] = tmp[w] + m]
                   /\ outcome'[w] = "applied")
          /\ (StoreStep(w) /\ Single)
               => balance'[a] = balance[a] + m
          /\ (outcome[w] = "rejected" /\ pc'[w] # pc[w])
               => balance' = balance]_vars

\* a distributed batch is over: the debit of 3000 was rejected and its
\* worker released the lock, the credit of 100 was applied
C10_Witness ==
  \E w1, w2 \in Procs :
    /\ Distributed
    /\ Tx(w1).amt = -3000 /\ outcome[w1] = "rejected"
    /\ pc[w1] = "done" /\ relErr[w1] = "nil"
    /\ Tx(w2).amt = 100 /\ outcome[w2] = "applied" /\ pc[w2] = "done"
    /\ balance = [InitialBalance EXCEPT !["11111"] = 1100]

(* C11: once every distributed worker has returned, each balance is the    *)
(* initial balance plus the amounts of the transactions that were applied: *)
(* no applied update is lost or counted twice.                             *)
C11_BalanceConservation ==
  (Distributed /\ Finished)
    => \A a \in Accounts : balance[a] = StartBalance[a] + SumAmt(Applied(a))

(* C12: a distributed worker writes the balance only while the store holds *)
(* a record for the account's key that carries the worker's token.         *)
C12_WriteOnlyUnderLock ==
  [][\A w \in Procs :
       (Distributed /\ StoreStep(w))
       => (/\ KeyOf(w) \in DOMAIN data
           /\ data[KeyOf(w)] = lockValue[w])]_vars

(* C13: when the retrying ProcessTransaction over MockRedis has returned   *)
(* for every transaction of the batch, each was applied but the debit of   *)
(* 3000, which was rejected; none was skipped, and the balances are the    *)
(* expected ones.                                                          *)
C13_MockBatchOutcome ==
  (prog = "mock" /\ Finished)
    => /\ \A w \in Procs : outcome[w] = Expected(w)
       /\ \A a \in Accounts : balance[a] = ExpectedBalance(a)

(* C14: when the single-attempt ProcessTransaction (RedisClient variant,   *)
(* go-redis variant) has returned for every transaction of the batch,      *)
(* each was applied but the debit of 3000 and the balances are the         *)
(* expected ones.                                                          *)
C14_SingleAttemptBatchOutcome ==
  (prog \in {"client", "redis"} /\ Finished)
    => /\ \A w \in Procs : outcome[w] \in {Expected(w)}
       /\ \A a \in Accounts : balance[a] = ExpectedBalance(a)

(* C15: under the mutex, no two goroutines of one account are between     *)
(* a.mu.Lock() and a.mu.Unlock() at the same time, the mutex is locked     *)
(* exactly while one is, and a goroutine at a.mu.Lock() can take the       *)
(* mutex whenever no goroutine of its own account is inside, whatever the  *)
(* goroutines of other accounts do.                                        *)
C15_MutexExclusion ==
  Single =>
    /\ \A w1, w2 \in Procs :
         (w1 # w2 /\ Tx(w1).acct = Tx(w2).acct) => ~(InMu(w1) /\ InMu(w2))
    /\ \A a \in Accounts :
         mu[a] <=> \E w \in Procs : Tx(w).acct = a /\ InMu(w)
    /\ \A w \in Procs :
         (/\ pc[w] = "lock"
          /\ \A w2 \in Procs : Tx(w2).acct = Tx(w).acct => ~InMu(w2))
         => ENABLED MuLock(w)

\* one goroutine is about to write the balance while another of the same
\* account waits at a.mu.Lock()
C15_Witness ==
  \E w1, w2 \in Procs :
    /\ Single
    /\ w1 # w2 /\ Tx(w1).acct = Tx(w2).acct
    /\ pc[w1] = "store" /\ pc[w2] = "lock"
    /\ mu[Tx(w1).acct]

C18_SkipMutatesNothing ==
  /\ [][\A w \in Procs : Distributed =>
          /\ (AcquireStep(w) /\ ~acquired'[w])
               => (/\ data' = data /\ owner' = owner /\ timers' = timers
                   /\ balance' = balance /\ mu' = mu)
          /\ (AcquireStep(w) /\ ~acquired'[w])
               => (outcome'[w] = "skipped"
                     <=> attempt[w] = IF prog = "mock" THEN MaxAttempts - 1 ELSE 0)
          /\ (outcome[w] # "skipped" /\ outcome'[w] = "skipped")
               => (AcquireStep(w) /\ ~acquired'[w] /\ pc'[w] = "done")
          /\ (pc[w] = "new" /\ pc'[w] = "acquire")
               => (data' = data /\ timers' = timers /\ balance' = balance)
          /\ (outcome[w] = "skipped" /\ pc'[w] \notin {pc[w], "dead"})
               => (/\ pc'[w] \in {"wrapper", "exited"}
                   /\ outcome'[w] = "skipped"
                   /\ data' = data /\ timers' = timers
                   /\ balance' = balance)]_vars
  /\ [](\A w \in Procs :
          outcome[w] = "skipped"
            => (~acquired[w] /\ relErr[w] = "none" /\ tmp[w] = 0
                /\ pc[w] \in {"done", "wrapper", "exited", "dead"}))
  /\ [][\A v \in Procs :
          (/\ Distributed
           /\ pc'[v] # "dead"
           /\ (pc'[v] # pc[v] \/ attempt'[v] # attempt[v]))
          => Rank(pc'[v], attempt'[v]) > Rank(pc[v], attempt[v])]_vars
  /\ [](\A w, v \in Procs :
          (Distributed /\ outcome[w] = "skipped")
            => /\ pc[v] = "unborn" => ENABLED Spawn
               /\ pc[v] \notin {"unborn", "exited", "dead"} => ENABLED WorkerStep(v))

\* a worker made its three attempts and skipped; the worker that held the
\* lock has since applied its transaction and returned
C18_Witness ==
  \E w, v \in Procs :
    /\ prog = "mock"
    /\ outcome[w] = "skipped" /\ balance[Tx(w).acct] # StartBalance[Tx(w).acct]
    /\ outcome[v] = "applied" /\ pc[v] = "exited" /\ pc[w] = "exited"

(* C19: with a store that may fail, an AcquireLock that fails returns      *)
(* (false, err) and ProcessTransaction returns at once: no record, no      *)
(* balance changes, then or later, no further attempt and no ReleaseLock.  *)
(* Contention returns (false, nil), only on a held key, and is never       *)
(* reported as an error; the mocks, which cannot fail, never return one.   *)
C19_StoreFailureStops ==
  /\ [][\A w \in Procs : Distributed =>
          /\ (AcquireStep(w) /\ acqErr'[w] # "nil")
               => (/\ ~acquired'[w]
                   /\ outcome'[w] = "error"
                   /\ pc'[w] = "done"
                   /\ data' = data /\ timers' = timers
                   /\ balance' = balance
                   /\ relErr' = relErr)
          /\ (AcquireStep(w) /\ acqErr'[w] = "nil" /\ ~acquired'[w])
               => (KeyOf(w) \in DOMAIN data /\ outcome'[w] # "error")
          /\ (AcquireStep(w) /\ ~StoreMayFail) => acqErr'[w] = "nil"
          /\ (outcome[w] = "error" /\ pc'[w] \notin {pc[w], "dead"})
               => (/\ pc'[w] \in {"wrapper", "exited"}
                   /\ outcome'[w] = "error"
                   /\ attempt'[w] = attempt[w]
                   /\ data' = data /\ timers' = timers
                   /\ balance' = balance
                   /\ relErr' = relErr)]_vars
  /\ [](\A w \in Procs :
          outcome[w] = "error"
            => (/\ ~acquired[w] /\ acqErr[w] = "err" /\ relErr[w] = "none"
                /\ pc[w] \in {"done", "wrapper", "exited", "dead"}))

\* the server could not be reached when one worker called AcquireLock on a
\* free key; the worker has exited with its transaction not applied, the
\* other worker's transaction on the same account was applied
C19_Witness ==
  \E w, v \in Procs :
    /\ prog = "redis"
    /\ Tx(w).acct = Tx(v).acct
    /\ outcome[w] = "error" /\ acqErr[w] = "err" /\ pc[w] = "exited"
    /\ relErr[w] = "none"
    /\ outcome[v] = "applied" /\ pc[v] = "exited"
    /\ balance[Tx(w).acct] = StartBalance[Tx(w).acct] + Tx(v).amt

(* C20: wg.Wait() has returned, and the balances are read, only when       *)
(* ProcessTransaction has returned for every transaction of the batch:     *)
(* its critical section is over, its ReleaseLock (or Unlock) has run and   *)
(* its wg.Done() has been executed.                                        *)
C20_WaitAfterAllWorkers ==
  mainpc = "read" => \A w \in Procs : pc[w] \in {"wrapper", "exited"}

(* C21: the TTL goroutine a successful SetNX started never removes a       *)
(* record that a later successful SetNX on the same key stored, whatever   *)
(* the token of that later record, the token of the earlier one included:  *)
(* a TTL goroutine that removes a record is the one started for it.        *)
C21_TimerSparesLaterRecord ==
  [][\A t \in BagToSet(timers) :
       (ExpiryStep(t) /\ data' # data) => Len(t) = 2]_vars

(* C22: the retrying ProcessTransaction makes at most three AcquireLock    *)
(* attempts, numbered 0, 1, 2.  After a refused attempt that is not the    *)
(* last it waits and tries again; after the refused last one it returns    *)
(* at once as skipped.  It enters the critical section exactly when an     *)
(* attempt returned true.  It always terminates: none of its steps waits   *)
(* for another goroutine, and each takes it further on its way to the      *)
(* exit, which is a bounded number of steps away.                          *)
C22_BoundedRetry ==
  /\ [][\A w \in Procs : (prog = "mock" /\ AcquireStep(w)) =>
          /\ attempt[w] \in 0..(MaxAttempts - 1)
          /\ pc'[w] = "check" <=> acquired'[w]
          /\ (~acquired'[w] /\ attempt[w] < MaxAttempts - 1)
               => (/\ pc'[w] = "acquire"
                   /\ attempt'[w] = attempt[w] + 1
                   /\ outcome'[w] = "none")
          /\ (~acquired'[w] /\ attempt[w] = MaxAttempts - 1)
               => (pc'[w] = "done" /\ outcome'[w] = "skipped")]_vars
  /\ [][\A w \in Procs :
          (prog = "mock" /\ pc'[w] = "check" /\ pc[w] # "check")
            => (AcquireStep(w) /\ acquired'[w])]_vars
  /\ [][\A w \in Procs :
          (prog = "mock" /\ pc'[w] # "dead"
             /\ (pc'[w] # pc[w] \/ attempt'[w] # attempt[w]))
            => /\ Rank(pc[w], attempt[w]) < Rank(pc'[w], attempt'[w])
               /\ Rank(pc'[w], attempt'[w]) <= 9 + MaxAttempts]_vars
  /\ [](\A w \in Procs :
          (prog = "mock" /\ pc[w] \notin {"unborn", "exited", "dead"})
            => ENABLED WorkerStep(w))

\* a worker was refused twice while another held the key; the holder has
\* applied its transaction and released, so the third attempt will succeed
C22_Witness ==
  \E w, v \in Procs :
    /\ prog = "mock"
    /\ pc[w] = "acquire" /\ attempt[w] = MaxAttempts - 1 /\ ~acquired[w]
    /\ KeyOf(v) = KeyOf(w) /\ outcome[v] = "applied" /\ relErr[v] = "nil"
    /\ KeyOf(w) \notin DOMAIN data

(* C23: from non-negative balances, the balance of every account is at     *)
(* least zero in every reachable state of the distributed programs, under  *)
(* every interleaving of the workers and the TTL goroutines.               *)
C23_BalancesNonNegative ==
  Distributed => \A a \in Accounts : balance[a] >= 0

(* C24: lock operations on different keys do not touch one another.  A     *)
(* SetNX, a ReleaseLock (its Get and its Del) and a TTL expiry on one key  *)
(* leave the record of every other key as it was, and an AcquireLock       *)
(* succeeds whenever its own key is free, whatever other keys are held.    *)
C24_KeysIndependent ==
  [][/\ \A w \in Procs :
          (AcquireStep(w) \/ ReleaseGetStep(w) \/ ReleaseDelStep(w))
            => \A k \in AllKeys \ {KeyOf(w)} :
                 /\ k \in DOMAIN data' <=> k \in DOMAIN data
                 /\ Lookup(data', k) = Lookup(data, k)
     /\ \A w \in Procs :
          (AcquireStep(w) /\ KeyOf(w) \notin DOMAIN data)
            => (acquired'[w] /\ acqErr'[w] = "nil"
                /\ DOMAIN data' = DOMAIN data \cup {KeyOf(w)})
     /\ \A t \in BagToSet(timers) :
          ExpiryStep(t)
            => \A k \in AllKeys \ {t[1]} :
                 /\ k \in DOMAIN data' <=> k \in DOMAIN data
                 /\ Lookup(data', k) = Lookup(data, k)]_vars

\* two workers of different accounts each hold the key of their account
C24_Witness ==
  \E w1, w2 \in Procs :
    /\ Distributed
    /\ KeyOf(w1) # KeyOf(w2)
    /\ InCS(w1) /\ InCS(w2) /\ acquired[w1] /\ acquired[w2]
    /\ DOMAIN data = {KeyOf(w1), KeyOf(w2)}
    /\ owner[KeyOf(w1)] = w1 /\ owner[KeyOf(w2)] = w2

(* C25: a worker of the retrying ProcessTransaction that waits between     *)
(* two attempts holds nothing: the attempt that sent it to wait changed    *)
(* neither the store nor the TTL goroutines, no record of the store is     *)
(* its own, and it is inside no call of the store.  So while it waits      *)
(* every other worker that has not exited can take its next step (its      *)
(* SetNX, Get or Del included) and every sleeping TTL goroutine can fire.  *)
C25_WaitingWorkerHoldsNothing ==
  /\ [][\A w \in Procs :
          (prog = "mock" /\ AcquireStep(w) /\ pc'[w] = "acquire")
            => (/\ ~acquired'[w]
                /\ data' = data /\ owner' = owner /\ timers' = timers)]_vars
  /\ [](\A w \in Procs :
          (prog = "mock" /\ pc[w] = "acquire" /\ attempt[w] > 0)
            => /\ ~acquired[w]
               /\ \A k \in DOMAIN owner : owner[k] # w
               /\ \A v \in Procs \ {w} :
                    pc[v] \notin {"unborn", "exited", "dead"}
                      => ENABLED WorkerStep(v)
               /\ timers # EmptyBag => ENABLED TTLExpire)

\* a worker waits after a refused attempt while the holder of the key is
\* about to call Del and the holder's TTL goroutine is still asleep
C25_Witness ==
  \E w, v \in Procs :
    /\ prog = "mock"
    /\ pc[w] = "acquire" /\ attempt[w] = 1
    /\ KeyOf(v) = KeyOf(w) /\ pc[v] = "del" /\ owner[KeyOf(v)] = v
    /\ timers # EmptyBag

(* C26: every transaction of the batch gets exactly one outcome, applied,  *)
(* rejected or skipped.  The outcome is set once and never changes; a      *)
(* worker that has returned has one.  A transaction is applied by one      *)
(* write, which adds its amount once to the balance its worker read, on    *)
(* its own account and on no other; no balance changes in any other way.   *)
C26_OneOutcomePerTransaction ==
  /\ [][\A w \in Procs : prog # "locktest" =>
          /\ outcome[w] # "none" => outcome'[w] = outcome[w]
          /\ (outcome[w] = "none" /\ outcome'[w] = "applied") <=> StoreStep(w)
          /\ StoreStep(w)
               => /\ balance'[Tx(w).acct] = tmp[w] + Tx(w).amt
                  /\ \A a \in Accounts \ {Tx(w).acct} : balance'[a] = balance[a]
                  /\ \A v \in Procs \ {w} : ~StoreStep(v)]_vars
  /\ [][balance' # balance => \E w \in Procs : StoreStep(w)]_vars
  /\ [](\A w \in Procs :
          prog # "locktest"
            => /\ outcome[w] \in {"none", "applied", "rejected", "skipped"}
               /\ pc[w] \in {"done", "wrapper", "exited"}
                    => outcome[w] # "none"
               /\ outcome[w] = "none"
                    => pc[w] \notin {"release", "del", "unlock"})

\* the batch has ended with one transaction skipped and one applied: the
\* balance moved by the amount of the applied one, once
C26_Witness ==
  \E w, v \in Procs :
    /\ prog = "client"
    /\ Tx(w).acct = Tx(v).acct
    /\ outcome[w] = "skipped" /\ outcome[v] = "applied"
    /\ Finished
    /\ balance[Tx(v).acct] = StartBalance[Tx(v).acct] + Tx(v).amt

(* C27: the counter of the WaitGroup is never below zero: every harness    *)
(* (each main, each test) runs exactly one Done for each Add.              *)
C27_WaitGroupNonNegative ==
  wg >= 0

(* C28: a worker that did not acquire the lock, because every attempt was  *)
(* refused or because an attempt returned an error, never calls            *)
(* ReleaseLock and never calls Del: the Get and the Del of ReleaseLock are *)
(* only run by a worker whose AcquireLock returned true, and a worker      *)
(* that skipped or got an error returns with ReleaseLock never called and  *)
(* having removed no record.                                               *)
C28_NoReleaseWithoutAcquire ==
  /\ [][\A w \in Procs : Distributed =>
          /\ (ReleaseGetStep(w) \/ ReleaseDelStep(w))
               => (acquired[w] /\ outcome[w] \notin {"skipped", "error"})
          /\ (AcquireStep(w) /\ ~acquired'[w] /\ pc'[w] # "acquire")
               => (/\ pc'[w] = "done"
                   /\ outcome'[w] \in {"skipped", "error"}
                   /\ DOMAIN data' = DOMAIN data)
          /\ (outcome[w] \in {"skipped", "error"} /\ pc'[w] # pc[w])
               => (/\ pc'[w] \in {"wrapper", "exited", "dead"}
                   /\ relErr'[w] = "none")]_vars
  /\ [](\A w \in Procs :
          (Distributed /\ pc[w] \in {"release", "del"}) => acquired[w])
  /\ [](\A w \in Procs :
          (Distributed /\ outcome[w] \in {"skipped", "error"})
            => (~acquired[w] /\ relErr[w] = "none"))

\* a worker was refused and has returned without calling ReleaseLock; the
\* record of the holder, which is still in its critical section, is intact
C28_Witness ==
  \E w, v \in Procs :
    /\ prog = "redis"
    /\ outcome[w] = "skipped" /\ pc[w] = "exited" /\ relErr[w] = "none"
    /\ KeyOf(v) = KeyOf(w) /\ InCS(v) /\ acquired[v]
    /\ KeyOf(v) \in DOMAIN data /\ owner[KeyOf(v)] = v

(* C29: the balance endpoint answers 400 when the accountNumber parameter  *)
(* is empty, 404 when GetBalance reports that the account is unknown, and  *)
(* 200 with the account as JSON otherwise; the accounts table is never     *)
(* modified.                                                               *)
C29_BalanceEndpoint ==
  /\ [](prog = "http" /\ response.status # 0
          => /\ response.status = 400 <=> request = ""
             /\ response.status = 404
                  <=> (request # "" /\ request \notin DOMAIN accounts)
             /\ response.status = 200 <=> request \in DOMAIN accounts
             /\ response.status = 200
                  => /\ response.contentType = "application/json"
                     /\ Len(response.body) = 3
                     /\ response.body[1] = <<"accountNumber", request>>
                     /\ response.body[2]
                          = <<"customerName", accounts[request].CustomerName>>
                     /\ response.body[3]
                          = <<"balance", accounts[request].Balance>>
             /\ response.status = 404
                  => response.body = <<"account not found", "\n">>
             /\ response.status = 400
                  => response.body = <<"accountNumber is required", "\n">>)
  /\ [](accounts = ServiceAccounts)
  /\ [][accounts' = accounts]_vars

\* the balance of Jane Doe's account was asked for and served
C29_Witness ==
  /\ prog = "http"
  /\ request = "654321"
  /\ response.status = 200
  /\ response.body[3] = <<"balance", 2000>>

(* C30: a Del on a key that has a record removes the record and returns    *)
(* 1; a Del on a key without a record returns 0 and leaves the store as    *)
(* it was.  A key gets a record only from a successful SetNX, so a second  *)
(* Del on a key, with no SetNX on it in between, finds no record and       *)
(* returns 0.                                                              *)
C30_DelCount ==
  [][\A k \in StoreKeys :
       DelStep(k)
         => /\ k \in DOMAIN data
                 => (delCount' = 1 /\ k \notin DOMAIN data')
            /\ k \notin DOMAIN data
                 => (delCount' = 0 /\ data' = data)
            /\ \A j \in AllKeys \ {k} :
                 /\ j \in DOMAIN data' <=> j \in DOMAIN data
                 /\ Lookup(data', j) = Lookup(data, j)
            /\ lastCall = [who |-> 0, what |-> "Del", key |-> k]
                 => delCount' = 0]_vars

\* SetNX, Del and Del again on one key, no TTL goroutine having run: the
\* second Del found no record and returned 0
C30_Witness ==
  /\ prog = "store"
  /\ calls = 3
  /\ lastCall.what = "Del"
  /\ delCount = 0
  /\ data = EmptyMap
  /\ BagCardinality(timers) = 1

====
